---------------------------- MODULE Spec2Model ----------------------------
(***************************************************************************)
(* A model of lotto.py: the Draw Store filters (filter_by_weekdays,        *)
(* filter_by_cutoff_date, filter_results), the loop body of main, and the  *)
(* chart engine of DrawChart (create_header, create_matrix,                *)
(* create_color_matrix, calc_color, create_footer).                        *)
(*                                                                         *)
(* A date is the number of days since a fixed Monday, so that              *)
(* date.weekday() is date % 7 and timedelta(weeks=w) is 7*w days.  A store *)
(* (a Python dict, which keeps insertion order) is a sequence of entries   *)
(* [fn, draws] with distinct fn.  A raised exception is recorded in err.   *)
(*                                                                         *)
(* Spec calls the filters on every bounded store, a group without draws    *)
(* included: the filters take any dict of lists, and filter_by_weekdays    *)
(* returns such groups itself.  SpecChart builds a DrawChart from every    *)
(* bounded store of the sorting and colouring inputs.  SpecMain runs       *)
(* main's loop over DAY_COMBINATIONS on every store read_files can return. *)
(* SpecReader runs Reader.validate_filenames on every bounded list of      *)
(* filenames and SpecRow reads a row with Reader.read_by_order; filenames  *)
(* and cells are sequences of characters.  SpecTxt builds the LottoChart   *)
(* of txt_lotto.py, feeding its ColorMap the draws of a one-group store.   *)
(***************************************************************************)
EXTENDS Integers, Sequences, FiniteSets, TLC

VARIABLES
    results,   \* the base store the caller holds (main: draws)
    pc,        \* the call that has just returned, or "start"
    days,      \* the days argument of the last filter call
    weeks,     \* the weeks argument of the last filter call
    out,       \* the store the last filter call returned (main: days_results)
    err,       \* the exception the last call raised, "" when it returned
    header,    \* DrawChart.header
    body,      \* DrawChart.body
    colors,    \* DrawChart.colors
    footer,    \* DrawChart.footer
    draws,     \* DrawChart.draws
    width,     \* DrawChart.width
    height,    \* DrawChart.height
    combo,     \* main: how many of DAY_COMBINATIONS the loop has taken
    written,   \* main: the charts written so far, one entry per Writer.write
    filenames, \* Reader.filenames
    given,     \* the filenames the Reader was constructed with (history)
    idx,       \* validate_filenames: the position of the list iterator
    abort,     \* Reader.abort
    cells,     \* read_by_order: the row of cells being read
    read,      \* read_by_order: what reading the row gave
    colormap,  \* txt_lotto: the LottoChart.ColorMap
    chart      \* txt_lotto: LottoChart.rows

chartVars == <<header, body, colors, footer, draws, width, height>>

mainVars == <<combo, written>>

readerVars == <<filenames, given, idx, abort>>

rowVars == <<cells, read>>

txtVars == <<colormap, chart>>

otherVars == <<mainVars, readerVars, rowVars, txtVars>>

vars == <<results, pc, days, weeks, out, err, chartVars, otherVars>>

----------------------------------------------------------------------------
(* Bounds of the model *)

MaxDraws == 3      \* draws in a store of the filter and sorting inputs
MaxRows == 5       \* draws in a single-group store of the colouring inputs
MaxWeeks == 1      \* the weeks argument ranges over 0..MaxWeeks
MaxNumber == 2     \* the highest number of the number range
MaxMainDraws == 2  \* draws in a store that main's loop runs over
MaxFiles == 3      \* filenames given to the Reader
MaxCells == 2      \* cells of a row before its run of numbers

----------------------------------------------------------------------------
(* Constants of the program *)

MON == 0
TUE == 1
WED == 2
THU == 3
FRI == 4
SAT == 5
SUN == 6

DAY_COMBINATIONS ==
    << <<SAT>>, <<MON>>, <<TUE>>, <<WED>>,
       <<SAT, MON>>, <<SAT, TUE>>, <<SAT, WED>>, <<MON, TUE>>, <<TUE, WED>>, <<MON, WED>> >>

TEXT_COLS == 2
WHITE == "#FFFFFE"
GOLD == "#FFFF00"
BLUE == "#66CCFF"
PINK == "#FF6FCF"
GREEN == "#66FF66"

TALLY_COLORS ==
    << [color |-> GOLD, name |-> "Gold"], [color |-> BLUE, name |-> "Blue"],
       [color |-> PINK, name |-> "Pink"], [color |-> GREEN, name |-> "Green"] >>

\* The rules with GOLD moved to the front.
COLOR_RULES_GoldFirst ==
    << [rule |-> <<TRUE>>, color |-> GOLD],
       [rule |-> <<TRUE, TRUE>>, color |-> GREEN],
       [rule |-> <<FALSE, FALSE, TRUE>>, color |-> PINK],
       [rule |-> <<FALSE, TRUE>>, color |-> BLUE] >>

COLOR_RULES ==
    << [rule |-> <<TRUE, TRUE>>, color |-> GREEN],
       [rule |-> <<FALSE, FALSE, TRUE>>, color |-> PINK],
       [rule |-> <<FALSE, TRUE>>, color |-> BLUE],
       [rule |-> <<TRUE>>, color |-> GOLD] >>

HEADER_HEIGHT == 1
FOOTER_HEIGHT == 1 + Len(COLOR_RULES)

\* Python's None, as last_date returns it: no date of the model is negative.
None == -1

\* args.number_range
lowest == 1
highest == MaxNumber

----------------------------------------------------------------------------
(* Inputs *)

Labels == {"Monday", "Oz"}

\* The order of Python's str comparison on the labels.
LabelRank(fn) == IF fn = "Monday" THEN 1 ELSE 2

\* A Monday, the Tuesday after it, the Monday a week later and the Wednesday
\* of that week.
DateInputs == {0, 1, 7, 9}

DayInputs == { DAY_COMBINATIONS[i] : i \in 1..Len(DAY_COMBINATIONS) }

WeekInputs == 0..MaxWeeks

Draw(draw_num, date, numbers, lo, hi) ==
    [draw_num |-> draw_num, date |-> date, numbers |-> numbers, lowest |-> lo, highest |-> hi]

SeqsOfLen(S, k) == [1..k -> S]

SeqsUpTo(S, n) == UNION { SeqsOfLen(S, k) : k \in 0..n }

\* Every store of at most n draws taken from D, in one or two groups, in
\* either insertion order, and the store with no group.
StoresOver(D, n) ==
    { <<>> }
    \cup { <<[fn |-> l, draws |-> s]>> : l \in Labels, s \in SeqsUpTo(D, n) }
    \cup UNION { UNION { { <<[fn |-> l1, draws |-> s1], [fn |-> l2, draws |-> s2]>> :
                              s1 \in SeqsOfLen(D, ka), s2 \in SeqsUpTo(D, n - ka) } :
                         ka \in 0..n } :
                 <<l1, l2>> \in { p \in Labels \X Labels : p[1] # p[2] } }

FilterDraws == { Draw(1, d, <<lowest>>, lowest, highest) : d \in DateInputs }

FilterStores == StoresOver(FilterDraws, MaxDraws)

\* Draws of two dates, with a number missing, both numbers out of order, and
\* a number listed twice.
SortDates == {0, 1}

SortNumbers == { <<>>, <<highest, lowest>>, <<lowest, lowest>> }

SortDraws == { Draw(1, d, ns, lowest, highest) : d \in SortDates, ns \in SortNumbers }

SortStores == StoresOver(SortDraws, MaxDraws)

\* One group of up to MaxRows draws of one date: every history of a column.
ColumnNumbers == { <<>>, <<lowest>>, <<highest>>, <<highest, lowest>> }

ColumnDraws == { Draw(1, 0, ns, lowest, highest) : ns \in ColumnNumbers }

ColumnStores == { <<[fn |-> "Monday", draws |-> s]>> : s \in SeqsUpTo(ColumnDraws, MaxRows) }

ChartStores == SortStores \cup ColumnStores

----------------------------------------------------------------------------
(* Helpers on stores *)

weekday(date) == date % 7

InTuple(x, t) == \E i \in 1..Len(t) : t[i] = x

\* itertools.chain(*results.values())
RECURSIVE chain(_)
chain(store) ==
    IF store = <<>> THEN <<>> ELSE store[1].draws \o chain(Tail(store))

SeqMax(s) == CHOOSE m \in { s[i] : i \in 1..Len(s) } : \A i \in 1..Len(s) : s[i] <= m

last_date(store) ==
    LET all == chain(store)
    IN  IF all = <<>> THEN None
        ELSE SeqMax([i \in 1..Len(all) |-> all[i].date])

\* A returned value, or the exception raised instead.
Ok(v) == [raised |-> "", value |-> v]

Raise(e) == [raised |-> e, value |-> <<>>]

WeekdayFiltered(store, ds) ==
    [i \in 1..Len(store) |->
        [fn |-> store[i].fn,
         draws |-> SelectSeq(store[i].draws, LAMBDA d : InTuple(weekday(d.date), ds))]]

\* filter_by_weekdays without the check of the weekdays found.
filter_by_weekdays_NoCoverage(store, ds) == WeekdayFiltered(store, ds)

filter_by_weekdays(store, ds) ==
    LET filtered == WeekdayFiltered(store, ds)
        all == chain(filtered)
        days_found == { weekday(all[i].date) : i \in 1..Len(all) }
    IN  IF Cardinality(days_found) < Len(ds) THEN <<>> ELSE filtered

\* filter_by_cutoff_date keeping the draws dated on the cutoff.
filter_by_cutoff_date_Inclusive(store, w) ==
    IF store = <<>> THEN Ok(<<>>)
    ELSE IF last_date(store) = None THEN Raise("TypeError")
    ELSE LET cutoff == last_date(store) - 7 * w
         IN  Ok([i \in 1..Len(store) |->
                    [fn |-> store[i].fn,
                     draws |-> SelectSeq(store[i].draws, LAMBDA d : d.date >= cutoff)]])

\* filter_by_cutoff_date leaving out the groups it empties.
filter_by_cutoff_date_DropEmpty(store, w) ==
    IF store = <<>> THEN Ok(<<>>)
    ELSE IF last_date(store) = None THEN Raise("TypeError")
    ELSE LET cutoff == last_date(store) - 7 * w
         IN  Ok(SelectSeq([i \in 1..Len(store) |->
                              [fn |-> store[i].fn,
                               draws |-> SelectSeq(store[i].draws, LAMBDA d : d.date > cutoff)]],
                          LAMBDA e : e.draws # <<>>))

filter_by_cutoff_date(store, w) ==
    IF store = <<>> THEN Ok(<<>>)
    ELSE IF last_date(store) = None THEN Raise("TypeError")
    ELSE LET cutoff == last_date(store) - 7 * w
         IN  Ok([i \in 1..Len(store) |->
                    [fn |-> store[i].fn,
                     draws |-> SelectSeq(store[i].draws, LAMBDA d : d.date > cutoff)]])

\* filter_results cutting by date before it filters by weekday.
filter_results_CutoffFirst(store, ds, w) ==
    LET cut == filter_by_cutoff_date(store, w)
    IN  IF cut.raised # "" THEN cut
        ELSE Ok(SelectSeq(filter_by_weekdays(cut.value, ds), LAMBDA e : e.draws # <<>>))

\* filter_results keeping the groups that are left without draws.
filter_results_KeepEmpty(store, ds, w) ==
    filter_by_cutoff_date(filter_by_weekdays(store, ds), w)

filter_results(store, ds, w) ==
    LET filtered == filter_by_cutoff_date(filter_by_weekdays(store, ds), w)
    IN  IF filtered.raised # "" THEN filtered
        ELSE Ok(SelectSeq(filtered.value, LAMBDA e : e.draws # <<>>))

----------------------------------------------------------------------------
(* DrawChart *)

NumCols == highest - lowest + 1

create_header == << <<"Date", "File">> \o [i \in 1..NumCols |-> lowest + i - 1] >>

\* A row whose range of numbers stops short of highest.
RowOf_ExclusiveRange(fn, draw) ==
    <<draw.date, fn>> \o [i \in 1..(NumCols - 1) |-> InTuple(lowest + i - 1, draw.numbers)]

\* One row of create_matrix: the date, the group label, and a boolean for
\* every number of the range.
RowOf(fn, draw) ==
    <<draw.date, fn>> \o [i \in 1..NumCols |-> InTuple(lowest + i - 1, draw.numbers)]

RECURSIVE UnsortedRows(_)
UnsortedRows(store) ==
    IF store = <<>> THEN <<>>
    ELSE [j \in 1..Len(store[1].draws) |-> RowOf(store[1].fn, store[1].draws[j])]
            \o UnsortedRows(Tail(store))

\* The order of the dates alone: rows of one date are not ordered by label.
KeyLE_DateOnly(r1, r2) == r1[1] <= r2[1]

\* itemgetter(date_col, file_col): the order of the (date, label) keys.
KeyLE(r1, r2) ==
    \/ r1[1] < r2[1]
    \/ r1[1] = r2[1] /\ LabelRank(r1[2]) <= LabelRank(r2[2])

\* list.sort is stable: a row goes after every row whose key is not greater.
InsertRow(sorted, row) ==
    LET k == Cardinality({ i \in 1..Len(sorted) : KeyLE(sorted[i], row) })
    IN  SubSeq(sorted, 1, k) \o <<row>> \o SubSeq(sorted, k + 1, Len(sorted))

RECURSIVE SortRows(_)
SortRows(matrix) ==
    IF matrix = <<>> THEN <<>>
    ELSE InsertRow(SortRows(SubSeq(matrix, 1, Len(matrix) - 1)), matrix[Len(matrix)])

create_matrix(store) == SortRows(UnsortedRows(store))

\* A match on the cells that exist, without the check of the rule's length.
RuleMatches_NoLengthCheck(prev, rule) ==
    \A i \in 1..(IF Len(prev) < Len(rule) THEN Len(prev) ELSE Len(rule)) : prev[i] = rule[i]

RuleMatches(prev, rule) ==
    /\ Len(prev) >= Len(rule)
    /\ \A i \in 1..Len(rule) : prev[i] = rule[i]

RECURSIVE calc_color(_, _)
calc_color(prev, rules) ==
    IF rules = <<>> THEN WHITE
    ELSE IF RuleMatches(prev, rules[1].rule) THEN rules[1].color
    ELSE calc_color(prev, Tail(rules))

max_rule_length ==
    CHOOSE n \in { Len(COLOR_RULES[i].rule) : i \in 1..Len(COLOR_RULES) } :
        \A i \in 1..Len(COLOR_RULES) : Len(COLOR_RULES[i].rule) <= n

\* The cells above row r taken from the first number column, whatever c.
previous_cells_FirstColumn(b, r, c) ==
    LET row == r - 1
        fourth_previous == IF row - max_rule_length > 0 THEN row - max_rule_length ELSE 0
    IN  [i \in 1..(row - fourth_previous) |-> b[r - i][TEXT_COLS + 1]]

\* The cells above body row r (1..Len(b)) in column c, nearest first, at most
\* max_rule_length of them.
previous_cells(b, r, c) ==
    LET row == r - 1
        fourth_previous == IF row - max_rule_length > 0 THEN row - max_rule_length ELSE 0
    IN  [i \in 1..(row - fourth_previous) |-> b[r - i][c]]

\* The colour of the rule table for every numeric cell, drawn or not.
CellColor_AnyCell(b, r, c) ==
    IF c <= TEXT_COLS THEN WHITE
    ELSE calc_color(previous_cells(b, r, c), COLOR_RULES)

\* The colour of body row r, column c.
CellColor(b, r, c) ==
    IF c <= TEXT_COLS THEN WHITE
    ELSE IF ~b[r][c] THEN WHITE
    ELSE calc_color(previous_cells(b, r, c), COLOR_RULES)

\* create_color_matrix, for a body with at least one row (it raises
\* IndexError on len(self.body[0]) otherwise).
create_color_matrix(b) ==
    LET w == Len(b[1])
        h == Len(b)
    IN  [r \in 1..HEADER_HEIGHT |-> [c \in 1..w |-> WHITE]]
            \o [r \in 1..h |-> [c \in 1..w |-> CellColor(b, r, c)]]
            \o [r \in 1..FOOTER_HEIGHT |-> [c \in 1..w |-> WHITE]]

RECURSIVE SumSeq(_)
SumSeq(s) == IF s = <<>> THEN 0 ELSE s[1] + SumSeq(Tail(s))

\* list.count
Count(s, x) == Cardinality({ i \in 1..Len(s) : s[i] = x })

Pad4(n) ==
    IF n < 10 THEN "000" \o ToString(n)
    ELSE IF n < 100 THEN "00" \o ToString(n)
    ELSE IF n < 1000 THEN "0" \o ToString(n)
    ELSE ToString(n)

\* '{:.4f}%'.format(t / o): the quotient rounded to four decimals, a tie
\* to the even digit.
FormatPct(t, o) ==
    LET q == (t * 10000) \div o
        rem == (t * 10000) % o
        scaled == IF 2 * rem > o \/ (2 * rem = o /\ q % 2 = 1) THEN q + 1 ELSE q
    IN  ToString(scaled \div 10000) \o "." \o Pad4(scaled % 10000) \o "%"

\* sum(draw.numbers.count(n) for draw in self.draws)
times_drawn(ds, n) == SumSeq([i \in 1..Len(ds) |-> Count(ds[i].numbers, n)])

calc_draw_percentage(ds, n) ==
    LET opps == Len(ds)
    IN  IF opps = 0 THEN ""
        ELSE FormatPct(times_drawn(ds, n), opps)

draw_percentages_row(ds) ==
    <<"", "Draw %">> \o [i \in 1..NumCols |-> calc_draw_percentage(ds, lowest + i - 1)]

\* The tallies with the colours taken in the order of COLOR_RULES under the
\* names of TALLY_COLORS.
tallies_footer_RuleOrder(cs) ==
    [k \in 1..Len(TALLY_COLORS) |->
        <<"", TALLY_COLORS[k].name>>
            \o [i \in 1..(Len(cs[1]) - TEXT_COLS) |->
                    Cardinality({ r \in 1..Len(cs) : cs[r][TEXT_COLS + i] = COLOR_RULES[k].color })]]

\* One row for every tally colour: a blank, the colour's name, and for every
\* number column the count of that colour in the column of cs.
tallies_footer(cs) ==
    [k \in 1..Len(TALLY_COLORS) |->
        <<"", TALLY_COLORS[k].name>>
            \o [i \in 1..(Len(cs[1]) - TEXT_COLS) |->
                    Cardinality({ r \in 1..Len(cs) : cs[r][TEXT_COLS + i] = TALLY_COLORS[k].color })]]

create_footer(ds, cs) == <<draw_percentages_row(ds)>> \o tallies_footer(cs)

\* DrawChart(store, num_range): __init__ and process.
Construct(store) ==
    LET h == create_header
        b == create_matrix(store)
    IN  /\ draws' = chain(store)
        /\ header' = h
        /\ body' = b
        /\ IF b = <<>>
           THEN /\ err' = "IndexError"
                /\ UNCHANGED <<colors, footer, width, height>>
           ELSE LET cs == create_color_matrix(b)
                    f == create_footer(chain(store), cs)
                IN  /\ err' = ""
                    /\ colors' = cs
                    /\ footer' = f
                    /\ width' = Len(b[1])
                    /\ height' = Len(h) + Len(b) + Len(f)

----------------------------------------------------------------------------
(* Actions *)

NoChart ==
    /\ header = <<>>
    /\ body = <<>>
    /\ colors = <<>>
    /\ footer = <<>>
    /\ draws = <<>>
    /\ width = 0
    /\ height = 0

\* main's loop has not started.
NoMain ==
    /\ combo = 0
    /\ written = <<>>

\* No Reader is constructed.
NoReader ==
    /\ filenames = <<>>
    /\ given = <<>>
    /\ idx = 0
    /\ abort = FALSE

\* No row is being read.
NoRow ==
    /\ cells = <<>>
    /\ read = <<>>

\* No LottoChart is constructed.
NoTxt ==
    /\ colormap = <<>>
    /\ chart = <<>>

Init ==
    /\ results \in FilterStores
    /\ pc = "start"
    /\ days = <<>>
    /\ weeks = 0
    /\ out = <<>>
    /\ err = ""
    /\ NoChart
    /\ NoMain
    /\ NoReader
    /\ NoRow
    /\ NoTxt

CallFilterByWeekdays ==
    /\ pc = "start"
    /\ \E ds \in DayInputs :
        /\ days' = ds
        /\ out' = filter_by_weekdays(results, ds)
    /\ pc' = "filter_by_weekdays"
    /\ UNCHANGED <<results, weeks, err, chartVars>>
    /\ UNCHANGED otherVars

CallFilterByCutoffDate ==
    /\ pc = "start"
    /\ \E w \in WeekInputs :
        LET r == filter_by_cutoff_date(results, w)
        IN  /\ weeks' = w
            /\ out' = r.value
            /\ err' = r.raised
    /\ pc' = "filter_by_cutoff_date"
    /\ UNCHANGED <<results, days, chartVars>>
    /\ UNCHANGED otherVars

\* filter_results storing what it keeps in the store it was given.
CallFilterResults_InPlace ==
    /\ pc = "start"
    /\ \E ds \in DayInputs, w \in WeekInputs :
        LET r == filter_results(results, ds, w)
        IN  /\ days' = ds
            /\ weeks' = w
            /\ out' = r.value
            /\ results' = r.value
            /\ err' = r.raised
    /\ pc' = "filter_results"
    /\ UNCHANGED chartVars
    /\ UNCHANGED otherVars

CallFilterResults ==
    /\ pc = "start"
    /\ \E ds \in DayInputs, w \in WeekInputs :
        LET r == filter_results(results, ds, w)
        IN  /\ days' = ds
            /\ weeks' = w
            /\ out' = r.value
            /\ err' = r.raised
    /\ pc' = "filter_results"
    /\ UNCHANGED <<results, chartVars>>
    /\ UNCHANGED otherVars

\* main: a chart is built from a combination's filtered store when the
\* store has a group.
BuildChart ==
    /\ pc = "filter_results"
    /\ err = ""
    /\ Len(out) # 0
    /\ Construct(out)
    /\ pc' = "DrawChart"
    /\ UNCHANGED <<results, days, weeks, out>>
    /\ UNCHANGED otherVars

\* DrawChart(results, num_range), called on the store itself.
CallDrawChart ==
    /\ pc = "start"
    /\ Construct(results)
    /\ pc' = "DrawChart"
    /\ UNCHANGED <<results, days, weeks, out>>
    /\ UNCHANGED otherVars

\* The caller goes on to its next call with the store it holds (main: the
\* next combination of the loop).
NextCall ==
    /\ pc # "start"
    /\ err = ""
    /\ pc' = "start"
    /\ days' = <<>>
    /\ weeks' = 0
    /\ out' = <<>>
    /\ header' = <<>>
    /\ body' = <<>>
    /\ colors' = <<>>
    /\ footer' = <<>>
    /\ draws' = <<>>
    /\ width' = 0
    /\ height' = 0
    /\ UNCHANGED <<results, err>>
    /\ UNCHANGED otherVars

Next ==
    \/ CallFilterByWeekdays
    \/ CallFilterByCutoffDate
    \/ CallFilterResults
    \/ BuildChart
    \/ NextCall

Spec == Init /\ [][Next]_vars

\* The chart engine alone, over the sorting and colouring inputs.
InitChart ==
    /\ results \in ChartStores
    /\ pc = "start"
    /\ days = <<>>
    /\ weeks = 0
    /\ out = <<>>
    /\ err = ""
    /\ NoChart
    /\ NoMain
    /\ NoReader
    /\ NoRow
    /\ NoTxt

NextChart ==
    \/ CallDrawChart
    \/ NextCall

SpecChart == InitChart /\ [][NextChart]_vars

----------------------------------------------------------------------------
(* main: the loop over DAY_COMBINATIONS *)

DAY_STRINGS(day) ==
    CASE day = MON -> "Mon" [] day = TUE -> "Tue" [] day = WED -> "Wed"
      [] day = THU -> "Thu" [] day = FRI -> "Fri" [] day = SAT -> "Sat"
      [] day = SUN -> "Sun"

\* sorted(days, key=lambda d: (d - first_day) % 7), first_day being SAT.
RECURSIVE sorted_days(_)
sorted_days(ds) ==
    IF ds = <<>> THEN <<>>
    ELSE LET rest == sorted_days(SubSeq(ds, 1, Len(ds) - 1))
             d == ds[Len(ds)]
             k == Cardinality({ i \in 1..Len(rest) : (rest[i] - SAT) % 7 <= (d - SAT) % 7 })
         IN  SubSeq(rest, 1, k) \o <<d>> \o SubSeq(rest, k + 1, Len(rest))

\* generate_filename: the parts the name is joined from, the last date and
\* the names of the days from Saturday on.
generate_filename(ds, last) ==
    <<last>> \o [i \in 1..Len(ds) |-> DAY_STRINGS(sorted_days(ds)[i])]

\* What read_files returns: at least one group, no group without draws.
MainStores ==
    { s \in StoresOver(FilterDraws, MaxMainDraws) :
        s # <<>> /\ \A i \in 1..Len(s) : s[i].draws # <<>> }

InitMain ==
    /\ results \in MainStores
    /\ weeks \in WeekInputs
    /\ pc = "main"
    /\ days = <<>>
    /\ out = <<>>
    /\ err = ""
    /\ NoChart
    /\ NoMain
    /\ NoReader
    /\ NoRow
    /\ NoTxt

\* for days in DAY_COMBINATIONS: days_results = filter_results(...)
MainFilterResults ==
    /\ pc = "main"
    /\ combo < Len(DAY_COMBINATIONS)
    /\ LET r == filter_results(results, DAY_COMBINATIONS[combo + 1], weeks)
       IN  /\ out' = r.value
           /\ err' = r.raised
    /\ days' = DAY_COMBINATIONS[combo + 1]
    /\ combo' = combo + 1
    /\ pc' = "filter_results"
    /\ UNCHANGED <<results, weeks, chartVars, written, readerVars, rowVars, txtVars>>

\* if len(days_results) == 0: continue
MainContinue ==
    /\ pc = "filter_results"
    /\ err = ""
    /\ Len(out) = 0
    /\ pc' = "main"
    /\ UNCHANGED <<results, days, weeks, out, err, chartVars, otherVars>>

\* Writer(chart, resolution).write(generate_filename(days, last_date(...)))
MainWrite ==
    /\ pc = "DrawChart"
    /\ err = ""
    /\ written' = Append(written, generate_filename(days, last_date(out)))
    /\ pc' = "main"
    /\ UNCHANGED <<results, days, weeks, out, err, chartVars, combo, readerVars, rowVars, txtVars>>

\* The loop is exhausted and main returns.
MainReturn ==
    /\ pc = "main"
    /\ combo = Len(DAY_COMBINATIONS)
    /\ pc' = "return"
    /\ UNCHANGED <<results, days, weeks, out, err, chartVars, otherVars>>

NextMain ==
    \/ MainFilterResults
    \/ MainContinue
    \/ BuildChart
    \/ MainWrite
    \/ MainReturn

SpecMain == InitMain /\ [][NextMain]_vars

----------------------------------------------------------------------------
(* Reader.validate_filenames *)

\* A filename is the sequence of its characters.
UpperCase ==
    << "A", "B", "C", "D", "E", "F", "G", "H", "I", "J", "K", "L", "M",
       "N", "O", "P", "Q", "R", "S", "T", "U", "V", "W", "X", "Y", "Z" >>

LowerCase ==
    << "a", "b", "c", "d", "e", "f", "g", "h", "i", "j", "k", "l", "m",
       "n", "o", "p", "q", "r", "s", "t", "u", "v", "w", "x", "y", "z" >>

\* str.lower
lower(s) ==
    [i \in 1..Len(s) |->
        IF \E k \in 1..Len(UpperCase) : UpperCase[k] = s[i]
        THEN LowerCase[CHOOSE k \in 1..Len(UpperCase) : UpperCase[k] = s[i]]
        ELSE s[i]]

\* str.endswith
endswith(s, suffix) ==
    /\ Len(s) >= Len(suffix)
    /\ SubSeq(s, Len(s) - Len(suffix) + 1, Len(s)) = suffix

\* The test of validate_filenames: the name is reported and removed.
MissingCsv(fn) == Len(fn) < 5 \/ ~endswith(lower(fn), <<".", "c", "s", "v">>)

\* list.remove: the list without the first element equal to x.
remove(list, x) ==
    LET k == CHOOSE i \in 1..Len(list) :
                list[i] = x /\ \A j \in 1..(i - 1) : list[j] # x
    IN  SubSeq(list, 1, k - 1) \o SubSeq(list, k + 1, Len(list))

\* a.csv, b.CSV, a.txt, b.txt and the four characters .csv
NameInputs ==
    { <<"a", ".", "c", "s", "v">>, <<"b", ".", "C", "S", "V">>,
      <<"a", ".", "t", "x", "t">>, <<"b", ".", "t", "x", "t">>,
      <<".", "c", "s", "v">> }

\* Reader(filenames, use_headings, abort_on_error, num_range), and
\* read_files entering validate_filenames.
InitReader ==
    /\ filenames \in SeqsUpTo(NameInputs, MaxFiles)
    /\ given = filenames
    /\ abort \in BOOLEAN
    /\ idx = 0
    /\ pc = "validate_filenames"
    /\ results = <<>>
    /\ days = <<>>
    /\ weeks = 0
    /\ out = <<>>
    /\ err = ""
    /\ NoChart
    /\ NoMain
    /\ NoRow
    /\ NoTxt

\* One turn of "for fn in self.filenames": the list iterator gives the
\* element at its position and moves on; an invalid name ends the program
\* when abort is set and is removed from the list being iterated otherwise.
ValidateFilename ==
    /\ pc = "validate_filenames"
    /\ idx < Len(filenames)
    /\ LET fn == filenames[idx + 1]
       IN  IF MissingCsv(fn)
           THEN IF abort
                THEN /\ pc' = "sys.exit"
                     /\ UNCHANGED filenames
                ELSE /\ filenames' = remove(filenames, fn)
                     /\ UNCHANGED pc
           ELSE UNCHANGED <<filenames, pc>>
    /\ idx' = idx + 1
    /\ UNCHANGED <<given, abort>>
    /\ UNCHANGED <<results, days, weeks, out, err, chartVars, mainVars, rowVars, txtVars>>

\* The iterator is past the end of the list: validate_filenames returns.
ValidateReturn ==
    /\ pc = "validate_filenames"
    /\ idx >= Len(filenames)
    /\ pc' = "validated"
    /\ UNCHANGED <<filenames, given, abort, idx>>
    /\ UNCHANGED <<results, days, weeks, out, err, chartVars, mainVars, rowVars, txtVars>>

NextReader ==
    \/ ValidateFilename
    \/ ValidateReturn

SpecReader == InitReader /\ [][NextReader]_vars

----------------------------------------------------------------------------
(* txt_lotto.py: LottoChart and its ColorMap *)

MAX_BALLS == 45

BALLS == 1..MAX_BALLS

LOTTO_NAME_MAP == <<"Monday", "OzLotto", "Wednesday", "Thu", "Fri", "TattsLotto", "Sun">>

TALLY_NAMES == <<"Green", "Gold", "Blue", "Pink", "Drawn", "Not Drawn">>

\* class Colors
Colors == [GREEN |-> 0, GOLD |-> 1, BLUE |-> 2, PINK |-> 3, WHITE |-> 4, NONE |-> 5]

\* A field of the ColorMap: None, or the numbers of a draw.
NoNumbers == [none |-> TRUE, numbers |-> <<>>]

Numbers(ns) == [none |-> FALSE, numbers |-> ns]

\* ColorMap.__init__
NewColorMap ==
    [this |-> NoNumbers, last |-> NoNumbers, twoback |-> NoNumbers, threeback |-> NoNumbers]

\* "ball in field": True or False, or the TypeError of a test against None.
BallIn(ball, field) ==
    IF field.none THEN "TypeError"
    ELSE IF InTuple(ball, field.numbers) THEN "True" ELSE "False"

\* "ball not in field"
BallNotIn(ball, field) ==
    IF field.none THEN "TypeError"
    ELSE IF InTuple(ball, field.numbers) THEN "False" ELSE "True"

\* "a and b": b is evaluated only when a is True.
AndThen(a, b) == IF a = "True" THEN b ELSE a

is_gold(cm, ball) == AndThen(BallIn(ball, cm.this), BallIn(ball, cm.last))

is_green(cm, ball) ==
    AndThen(AndThen(BallIn(ball, cm.this), BallIn(ball, cm.last)), BallIn(ball, cm.twoback))

is_blue(cm, ball) ==
    AndThen(AndThen(BallIn(ball, cm.this), BallNotIn(ball, cm.last)), BallIn(ball, cm.twoback))

is_pink(cm, ball) ==
    AndThen(AndThen(AndThen(BallIn(ball, cm.this), BallNotIn(ball, cm.last)),
                    BallNotIn(ball, cm.twoback)),
            BallIn(ball, cm.threeback))

\* get_color as update calls it, this being the numbers of a draw: the
\* tests are tried in the order green, gold, blue, pink, and a TypeError
\* raised by any of them ends the trying with WHITE.
get_color(cm, ball) ==
    IF BallNotIn(ball, cm.this) = "True" THEN Colors.NONE
    ELSE IF is_green(cm, ball) = "TypeError" THEN Colors.WHITE
    ELSE IF is_green(cm, ball) = "True" THEN Colors.GREEN
    ELSE IF is_gold(cm, ball) = "TypeError" THEN Colors.WHITE
    ELSE IF is_gold(cm, ball) = "True" THEN Colors.GOLD
    ELSE IF is_blue(cm, ball) = "TypeError" THEN Colors.WHITE
    ELSE IF is_blue(cm, ball) = "True" THEN Colors.BLUE
    ELSE IF is_pink(cm, ball) = "TypeError" THEN Colors.WHITE
    ELSE IF is_pink(cm, ball) = "True" THEN Colors.PINK
    ELSE Colors.WHITE

\* The fields of the ColorMap after update(draw) has pushed draw.numbers.
pushed(cm, draw) ==
    [this |-> Numbers(draw.numbers), last |-> cm.this,
     twoback |-> cm.last, threeback |-> cm.twoback]

\* What update(draw) returns: a colour for every ball of BALLS.
update(cm, draw) == [ball \in BALLS |-> get_color(pushed(cm, draw), ball)]

\* self.tallies: for every name of TALLY_NAMES and every ball the number of
\* rows whose colour for the ball has the name.
tallies(rs) ==
    [k \in 1..Len(TALLY_NAMES) |->
        [ball \in BALLS |-> Cardinality({ r \in 1..Len(rs) : rs[r].colors[ball] = k - 1 })]]

\* LottoChart(draws) is entered with the draws of a one-group store.
InitTxt ==
    /\ results \in ColumnStores
    /\ colormap = NewColorMap
    /\ chart = [rows |-> <<>>, tallies |-> <<>>]
    /\ pc = "LottoChart.rows"
    /\ days = <<>>
    /\ weeks = 0
    /\ out = <<>>
    /\ err = ""
    /\ NoChart
    /\ NoMain
    /\ NoReader
    /\ NoRow

\* One turn of "for draw in draws": the row of the next draw is appended.
AppendRow ==
    /\ pc = "LottoChart.rows"
    /\ Len(chart.rows) < Len(chain(results))
    /\ LET draw == chain(results)[Len(chart.rows) + 1]
       IN  /\ colormap' = pushed(colormap, draw)
           /\ chart' = [chart EXCEPT !.rows =
                            Append(@, [date |-> draw.date,
                                       name |-> LOTTO_NAME_MAP[weekday(draw.date) + 1],
                                       colors |-> update(colormap, draw)])]
    /\ UNCHANGED <<results, pc, days, weeks, out, err, chartVars, mainVars, readerVars, rowVars>>

\* The draws are exhausted: the tallies are counted and the chart is built.
TallyRows ==
    /\ pc = "LottoChart.rows"
    /\ Len(chart.rows) = Len(chain(results))
    /\ chart' = [chart EXCEPT !.tallies = tallies(chart.rows)]
    /\ pc' = "LottoChart"
    /\ UNCHANGED <<results, days, weeks, out, err, chartVars, mainVars, readerVars, rowVars, colormap>>

NextTxt ==
    \/ AppendRow
    \/ TallyRows

SpecTxt == InitTxt /\ [][NextTxt]_vars

----------------------------------------------------------------------------
(* Reader.read_by_order *)

MAX_DRAWN_NUMBERS == 9

\* The default columns of read_by_order, counted from 0 as Python does.
draw_num_col == 0
date_col == 1
first_num_col == 2

\* string.digits
digits == <<"0", "1", "2", "3", "4", "5", "6", "7", "8", "9">>

\* all((ch in string.digits for ch in cell)): true of the empty cell.
AllDigits(cell) == \A i \in 1..Len(cell) : \E d \in 1..Len(digits) : digits[d] = cell[i]

DigitValue(ch) == (CHOOSE d \in 1..Len(digits) : digits[d] = ch) - 1

\* int(cell) of a cell of digits: ValueError for the empty cell.
RECURSIVE DecimalValue(_)
DecimalValue(cell) ==
    IF cell = <<>> THEN 0
    ELSE 10 * DecimalValue(SubSeq(cell, 1, Len(cell) - 1)) + DigitValue(cell[Len(cell)])

int(cell) == IF cell = <<>> THEN Raise("ValueError") ELSE Ok(DecimalValue(cell))

\* datetime.date(year, month, day) as the model counts dates: in days from
\* Monday 2021-01-04, for the days of January 2021.
datetime_date(year, month, day) == day - 4

\* date_from_str: the 'yyyymmdd' cell cut into year, month and day.
date_from_str(s) ==
    datetime_date(DecimalValue(SubSeq(s, 1, 4)), DecimalValue(SubSeq(s, 5, 6)),
                  DecimalValue(SubSeq(s, 7, Len(s))))

\* The loop over row[first_num_col:last_col]: a cell of digits is appended
\* as a number, a hyphen is passed over, any other cell breaks the loop.
RECURSIVE ReadCells(_, _)
ReadCells(cs, numbers) ==
    IF cs = <<>> THEN Ok(numbers)
    ELSE IF AllDigits(cs[1])
         THEN IF int(cs[1]).raised # "" THEN int(cs[1])
              ELSE ReadCells(Tail(cs), Append(numbers, int(cs[1]).value))
         ELSE IF cs[1] # <<"-">> THEN Ok(numbers)
              ELSE ReadCells(Tail(cs), numbers)

\* The body of "for row in csv_reader": the Draw of the row, or the
\* exception raised while reading it.
read_row(r) ==
    LET draw_num == int(r[draw_num_col + 1])
        date == date_from_str(r[date_col + 1])
        n == MAX_DRAWN_NUMBERS + first_num_col
        last_col == IF n < Len(r) THEN n ELSE Len(r)
        numbers == ReadCells(SubSeq(r, first_num_col + 1, last_col), <<>>)
    IN  IF draw_num.raised # "" THEN draw_num
        ELSE IF numbers.raised # "" THEN numbers
        ELSE Ok(Draw(draw_num.value, date, numbers.value, lowest, highest))

\* The empty cell, a hyphen, 7, 12 and a cell that is not a number.
CellInputs == { <<>>, <<"-">>, <<"7">>, <<"1", "2">>, <<"x">> }

\* The cells 1, 2, ..., k.
CountingCells(k) == [i \in 1..k |-> IF i < 10 THEN <<digits[i + 1]>> ELSE <<"1", digits[i - 9]>>]

\* A row: draw number 1, the date 20210104, up to MaxCells cells of
\* CellInputs and then the cells 1, 2, ... up to MAX_DRAWN_NUMBERS + 1.
RowInputs ==
    { << <<"1">>, <<"2", "0", "2", "1", "0", "1", "0", "4">> >> \o p \o CountingCells(k) :
        p \in SeqsUpTo(CellInputs, MaxCells), k \in 0..(MAX_DRAWN_NUMBERS + 1) }

\* read_by_order is entered and the csv_reader gives a row.
InitRow ==
    /\ cells \in RowInputs
    /\ read = <<>>
    /\ pc = "read_by_order"
    /\ results = <<>>
    /\ days = <<>>
    /\ weeks = 0
    /\ out = <<>>
    /\ err = ""
    /\ NoChart
    /\ NoMain
    /\ NoReader
    /\ NoTxt

\* The row is read: its Draw is appended to draws, or the exception leaves
\* read_by_order.
ReadRow ==
    /\ pc = "read_by_order"
    /\ LET r == read_row(cells)
       IN  /\ err' = r.raised
           /\ read' = IF r.raised = "" THEN Append(read, r.value) ELSE read
    /\ pc' = "row"
    /\ UNCHANGED <<cells, results, days, weeks, out, chartVars, mainVars, readerVars, txtVars>>

NextRow == ReadRow

SpecRow == InitRow /\ [][NextRow]_vars

----------------------------------------------------------------------------
(* The chart's colour rules (C1, C2, C3) *)

\* The number columns of a body row.
NumberCols == (TEXT_COLS + 1)..(TEXT_COLS + NumCols)

\* The colour of body row r (1..Len(body)), column c, in DrawChart.colors.
ColorAt(r, c) == colors[HEADER_HEIGHT + r][c]

ChartBuilt == pc = "DrawChart" /\ err = ""

\* The colour the rule order gives to a drawn cell whose three previous cells
\* are p1 (row r-1), p2 (row r-2) and p3 (row r-3).
C1_Table(p1, p2, p3) ==
    IF p1 /\ p2 THEN GREEN
    ELSE IF p1 THEN GOLD
    ELSE IF p2 THEN BLUE
    ELSE IF p3 THEN PINK
    ELSE WHITE

\* C1: a drawn cell with at least three body rows above it gets the colour of
\* the first matching rule in the order GREEN, PINK, BLUE, GOLD: (T,T,*) is
\* GREEN and never GOLD, (T,F,*) is GOLD, (F,T,*) is BLUE, (F,F,T) is PINK
\* and (F,F,F) is WHITE.
C1_RuleOrder ==
    ChartBuilt =>
        \A r \in 4..Len(body), c \in NumberCols :
            body[r][c] =>
                ColorAt(r, c) = C1_Table(body[r - 1][c], body[r - 2][c], body[r - 3][c])

\* A chart in which one cell with three rows above it is GREEN on a history
\* the GOLD rule matches too, and another is PINK.
C1_Witness ==
    /\ ChartBuilt
    /\ \E r \in 4..Len(body), c1 \in NumberCols, c2 \in NumberCols :
        /\ body[r][c1] /\ body[r - 1][c1] /\ body[r - 2][c1]
        /\ ColorAt(r, c1) = GREEN
        /\ body[r][c2] /\ ~body[r - 1][c2] /\ ~body[r - 2][c2] /\ body[r - 3][c2]
        /\ ColorAt(r, c2) = PINK

\* C2: in the first three body rows a rule matches only when its whole tuple
\* fits in the rows above, and building the chart raises nothing: a drawn
\* cell of the first row is WHITE; of the second row GOLD if the row above is
\* drawn and WHITE otherwise; of the third row GREEN on (T,T), GOLD on (T,F),
\* BLUE on (F,T) and WHITE on (F,F); PINK never occurs in these rows.
C2_ShortHistory ==
    (pc = "DrawChart" /\ body # <<>>) =>
        /\ err = ""
        /\ \A c \in NumberCols :
            /\ body[1][c] => ColorAt(1, c) = WHITE
            /\ (Len(body) >= 2 /\ body[2][c]) =>
                    ColorAt(2, c) = (IF body[1][c] THEN GOLD ELSE WHITE)
            /\ (Len(body) >= 3 /\ body[3][c]) =>
                    ColorAt(3, c) = C1_Table(body[2][c], body[1][c], FALSE)
            /\ \A r \in 1..Len(body) : r <= 3 => ColorAt(r, c) # PINK

\* A chart whose first row has a drawn cell, whose second row is GOLD in one
\* column and whose third row is BLUE in another.
C2_Witness ==
    /\ ChartBuilt
    /\ Len(body) >= 3
    /\ \E c1 \in NumberCols, c2 \in NumberCols :
        /\ body[1][c1] /\ ColorAt(1, c1) = WHITE
        /\ ColorAt(2, c1) = GOLD
        /\ ColorAt(3, c2) = BLUE

\* Rows 1..r of b (and one more row when extra), in which every number cell
\* outside column c's rows r-3..r holds fill: a chart that agrees with b on
\* that window and on nothing else.
WindowOnly(b, r, c, fill, extra) ==
    [i \in 1..(r + (IF extra THEN 1 ELSE 0)) |->
        [j \in 1..Len(b[1]) |->
            IF j <= TEXT_COLS THEN b[IF i <= r THEN i ELSE r][j]
            ELSE IF j = c /\ i >= r - 3 /\ i <= r THEN b[i][j]
            ELSE fill]]

\* C3: the colour of body cell (r, c) is the colour the same cell has in
\* every chart that keeps column c's rows r-3..r and holds all-False or
\* all-True cells everywhere else, with or without a row after r; so any two
\* charts that agree on that window give the cell the same colour.
C3_ColumnLocal ==
    ChartBuilt =>
        \A r \in 1..Len(body), c \in NumberCols :
            \A fill \in BOOLEAN, extra \in BOOLEAN :
                ColorAt(r, c) =
                    create_color_matrix(WindowOnly(body, r, c, fill, extra))[HEADER_HEIGHT + r][c]

\* A five-row chart with a PINK cell in its last row, a drawn cell of the
\* same column above the window, and a coloured cell of another column with a
\* row after it, the two columns differing in the rows between.
C3_Witness ==
    /\ ChartBuilt
    /\ Len(body) = 5
    /\ \E c \in NumberCols, c2 \in NumberCols :
        /\ c # c2
        /\ body[1][c]
        /\ ColorAt(5, c) = PINK
        /\ ColorAt(4, c2) = GOLD
        /\ body[5][c2]

----------------------------------------------------------------------------
(* The filters (C4..C9) *)

HasWeekday(store, d) ==
    \E i \in 1..Len(chain(store)) : weekday(chain(store)[i].date) = d

\* C4: filter_by_weekdays returns a non-empty store only if every requested
\* weekday is the weekday of a draw of the returned store; it returns the
\* empty store when a requested weekday has no draw in any group; and every
\* draw it returns has a requested weekday.
C4_WeekdayCoverage ==
    pc = "filter_by_weekdays" =>
        /\ out # <<>> => \A k \in 1..Len(days) : HasWeekday(out, days[k])
        /\ (\E k \in 1..Len(days) : ~HasWeekday(results, days[k])) => out = <<>>
        /\ \A i \in 1..Len(chain(out)) : InTuple(weekday(chain(out)[i].date), days)

\* Two weekdays are requested, both are found, and a draw of another weekday
\* is left out.
C4_Witness ==
    /\ pc = "filter_by_weekdays"
    /\ Len(days) = 2
    /\ out # <<>>
    /\ Len(chain(out)) < Len(chain(results))

\* The dates d of the draws of store that no draw's date exceeds.
LatestDates(store) ==
    { d \in { chain(store)[k].date : k \in 1..Len(chain(store)) } :
        \A k \in 1..Len(chain(store)) : chain(store)[k].date <= d }

\* C5: on a store with a draw, filter_by_cutoff_date returns, group by group,
\* exactly the draws dated strictly after latest - 7*weeks, latest being the
\* greatest date over all groups: a draw on the cutoff is left out.
C5_CutoffStrict ==
    (pc = "filter_by_cutoff_date" /\ chain(results) # <<>>) =>
        /\ err = ""
        /\ Len(out) = Len(results)
        /\ \A k \in 1..Len(chain(results)) :
            LET latest == chain(results)[k].date
            IN  (\A m \in 1..Len(chain(results)) : chain(results)[m].date <= latest) =>
                    \A i \in 1..Len(results) :
                        out[i].draws =
                            SelectSeq(results[i].draws, LAMBDA d : d.date > latest - 7 * weeks)

\* A draw dated exactly on the cutoff was left out and a draw between the
\* cutoff and the latest date was kept.
C5_Witness ==
    /\ pc = "filter_by_cutoff_date"
    /\ err = ""
    /\ weeks > 0
    /\ \E k \in 1..Len(chain(results)) :
            chain(results)[k].date = last_date(results) - 7 * weeks
    /\ \E k \in 1..Len(chain(out)) : chain(out)[k].date < last_date(results)

\* C6 as stated: the store filter_by_cutoff_date returns has no group with an
\* empty sequence of draws (here for a store that had none to begin with).
C6_NoEmptyGroup ==
    ( /\ pc = "filter_by_cutoff_date"
      /\ err = ""
      /\ \A i \in 1..Len(results) : results[i].draws # <<>> ) =>
        \A i \in 1..Len(out) : out[i].draws # <<>>

\* C6 as the code has it: filter_by_cutoff_date returns the groups of its
\* store, label by label; a group all of whose draws fall on or before the
\* cutoff stays, with an empty sequence of draws.  The store filter_results
\* returns has no empty group.
C6_GroupsKept ==
    /\ (pc = "filter_by_cutoff_date" /\ err = "") =>
        /\ Len(out) = Len(results)
        /\ \A i \in 1..Len(results) :
            /\ out[i].fn = results[i].fn
            /\ (\A j \in 1..Len(results[i].draws) :
                    results[i].draws[j].date <= last_date(results) - 7 * weeks)
                => out[i].draws = <<>>
    /\ (pc = "filter_results" /\ err = "") =>
        \A i \in 1..Len(out) : out[i].draws # <<>>

\* A group with draws came back empty beside a group that kept a draw.
C6_Witness ==
    /\ pc = "filter_by_cutoff_date"
    /\ err = ""
    /\ \E i \in 1..Len(results), j \in 1..Len(results) :
        /\ results[i].draws # <<>>
        /\ out[i].draws = <<>>
        /\ out[j].draws # <<>>

\* C7 as stated: on a store that holds no draw filter_by_cutoff_date raises
\* nothing and returns a store that holds no draw.
C7_NoDrawsNoOp ==
    (pc = "filter_by_cutoff_date" /\ chain(results) = <<>>) =>
        /\ err = ""
        /\ chain(out) = <<>>

\* The draws of group i of store on a weekday of ds.
OnDays(store, i, ds) ==
    SelectSeq(store[i].draws, LAMBDA d : \E k \in 1..Len(ds) : ds[k] = d.date % 7)

\* C8: filter_results raises nothing and returns
\* filter_by_cutoff_date(filter_by_weekdays(results, days), weeks) without its
\* empty groups: the empty store when a requested weekday has no draw in the
\* whole of results; otherwise the groups, in order, that have a draw on a
\* requested weekday dated after latest - 7*weeks, each with exactly those
\* draws, latest being the greatest date among the draws on a requested
\* weekday.
C8_FilterResults ==
    pc = "filter_results" =>
        /\ err = ""
        /\ LET composed == filter_by_cutoff_date(filter_by_weekdays(results, days), weeks)
           IN  /\ composed.raised = ""
               /\ out = SelectSeq(composed.value, LAMBDA e : e.draws # <<>>)
        /\ \A i \in 1..Len(out) : out[i].draws # <<>>
        /\ IF \E k \in 1..Len(days) : ~HasWeekday(results, days[k])
           THEN out = <<>>
           ELSE LET onDays == [i \in 1..Len(results) |->
                                  [fn |-> results[i].fn, draws |-> OnDays(results, i, days)]]
                IN  \A latest \in LatestDates(onDays) :
                        out = SelectSeq(
                                [i \in 1..Len(results) |->
                                    [fn |-> results[i].fn,
                                     draws |-> SelectSeq(onDays[i].draws,
                                                 LAMBDA d : d.date > latest - 7 * weeks)]],
                                LAMBDA e : e.draws # <<>>)

\* The latest draw of the store is not on a requested weekday, a draw older
\* than it by more than the window is returned, and a group is gone.
C8_Witness ==
    /\ pc = "filter_results"
    /\ err = ""
    /\ out # <<>>
    /\ Len(out) < Len(results)
    /\ \E k \in 1..Len(chain(out)) :
            chain(out)[k].date <= last_date(results) - 7 * weeks

\* C9: no step of the filters or of the construction of a chart changes the
\* store the caller holds, and the construction of a chart leaves the store
\* it is given as it was.
C9_StoreUnchanged ==
    [][/\ results' = results
       /\ pc' = "DrawChart" => out' = out]_vars

\* A chart was built from a filtered store that lacks draws of the store the
\* caller still holds.
C9_Witness ==
    /\ ChartBuilt
    /\ out # results
    /\ Len(chain(out)) < Len(chain(results))
    /\ Len(chain(results)) = MaxDraws

----------------------------------------------------------------------------
(* The presence matrix (C10) *)

\* Draws d1 of group fn1 and d2 of group fn2 have the same row.
SameRow(fn1, d1, fn2, d2) ==
    /\ fn1 = fn2
    /\ d1.date = d2.date
    /\ \A n \in lowest..highest :
        (\E k \in 1..Len(d1.numbers) : d1.numbers[k] = n)
            <=> (\E k \in 1..Len(d2.numbers) : d2.numbers[k] = n)

\* The places <<i, j>> of the draws of store: draw j of group i.
Places(store) ==
    UNION { { <<i, j>> : j \in 1..Len(store[i].draws) } : i \in 1..Len(store) }

\* Row is the row of create_matrix for draw d of group fn.
IsRowOf(row, fn, d) ==
    /\ Len(row) = TEXT_COLS + (highest - lowest + 1)
    /\ row[1] = d.date
    /\ row[2] = fn
    /\ \A n \in lowest..highest :
        row[TEXT_COLS + 1 + (n - lowest)] = (\E k \in 1..Len(d.numbers) : d.numbers[k] = n)

\* C10: create_header gives ['Date', 'File'] and then lowest..highest;
\* create_matrix gives as many rows as the store has draws, every row is the
\* row of a draw (its date, its label, then highest-lowest+1 booleans, the
\* one of n True iff n is among the draw's numbers), and every draw has as
\* many rows as there are draws of the store with its row.
C10_Matrix ==
    pc = "DrawChart" =>
        /\ Len(header) = 1
        /\ Len(header[1]) = TEXT_COLS + (highest - lowest + 1)
        /\ header[1][1] = "Date"
        /\ header[1][2] = "File"
        /\ \A n \in lowest..highest : header[1][TEXT_COLS + 1 + (n - lowest)] = n
        /\ Len(body) = Len(chain(results))
        /\ \A r \in 1..Len(body) :
            \E i \in 1..Len(results) : \E j \in 1..Len(results[i].draws) :
                IsRowOf(body[r], results[i].fn, results[i].draws[j])
        /\ \A i \in 1..Len(results) : \A j \in 1..Len(results[i].draws) :
            Cardinality({ r \in 1..Len(body) :
                            IsRowOf(body[r], results[i].fn, results[i].draws[j]) })
              = Cardinality({ p \in Places(results) :
                                SameRow(results[i].fn, results[i].draws[j],
                                        results[p[1]].fn, results[p[1]].draws[p[2]]) })


\* A chart of two groups with draws, one of them listing its numbers out of
\* order or twice.
C10_Witness ==
    /\ pc = "DrawChart"
    /\ err = ""
    /\ Len(results) = 2
    /\ Len(body) = MaxDraws
    /\ \A i \in 1..Len(results) : results[i].draws # <<>>
    /\ \E p \in Places(results) : Len(results[p[1]].draws[p[2]].numbers) = 2
    /\ \E r \in 1..Len(body), c \in NumberCols : ~body[r][c]

----------------------------------------------------------------------------
(* The order of the rows (C11) *)

\* The (date, label) key of row r1 is not after the one of r2; "Monday"
\* sorts before "Oz".
KeyNotAfter(r1, r2) ==
    \/ r1[1] < r2[1]
    \/ r1[1] = r2[1] /\ (r1[2] = r2[2] \/ (r1[2] = "Monday" /\ r2[2] = "Oz"))

\* The rows of body with date d and label fn, in the order of body.
RowsOfKey(d, fn) == SelectSeq(body, LAMBDA row : row[1] = d /\ row[2] = fn)

\* The draws of date d in ds, in the order of ds.
DrawsOfDate(ds, d) == SelectSeq(ds, LAMBDA draw : draw.date = d)

\* C11: the body rows are in ascending (date, label) order, and the rows of
\* one date and label are the rows of that group's draws of the date in the
\* order the store lists them; the two fix the order of the rows, so that
\* every build from the same store gives the same order.
C11_RowOrder ==
    pc = "DrawChart" =>
        /\ \A r1 \in 1..Len(body), r2 \in 1..Len(body) :
            r1 < r2 => KeyNotAfter(body[r1], body[r2])
        /\ \A i \in 1..Len(results) : \A d \in DateInputs :
            LET rows == RowsOfKey(d, results[i].fn)
                ds == DrawsOfDate(results[i].draws, d)
            IN  /\ Len(rows) = Len(ds)
                /\ \A k \in 1..Len(rows) : IsRowOf(rows[k], results[i].fn, ds[k])

\* A chart of a store that lists "Oz" before "Monday", both with a draw of
\* one date, and one of them with two draws of that date and different rows.
C11_Witness ==
    /\ pc = "DrawChart"
    /\ err = ""
    /\ Len(results) = 2
    /\ results[1].fn = "Oz"
    /\ \E d \in DateInputs :
        /\ \A i \in 1..2 : DrawsOfDate(results[i].draws, d) # <<>>
        /\ \E i \in 1..2 :
            LET ds == DrawsOfDate(results[i].draws, d)
            IN  Len(ds) = 2 /\ ~SameRow("Oz", ds[1], "Oz", ds[2])

----------------------------------------------------------------------------
(* The neutral cells of the colour matrix (C12) *)

\* C12: colors has as many rows as header, body and footer together and
\* as many columns as a body row; every cell of its header row and of its
\* footer rows is WHITE, and so are the two text columns of every body row
\* and every body cell whose presence value is False, whatever the cells
\* above it.
C12_NeutralCells ==
    ChartBuilt =>
        /\ Len(colors) = Len(header) + Len(body) + Len(footer)
        /\ \A r \in 1..Len(colors) : Len(colors[r]) = Len(body[1])
        /\ \A r \in 1..Len(header) : \A c \in 1..Len(colors[r]) : colors[r][c] = WHITE
        /\ \A r \in (Len(header) + Len(body) + 1)..Len(colors) :
            \A c \in 1..Len(colors[r]) : colors[r][c] = WHITE
        /\ \A r \in 1..Len(body) :
            /\ \A c \in 1..TEXT_COLS : colors[Len(header) + r][c] = WHITE
            /\ \A c \in NumberCols : ~body[r][c] => colors[Len(header) + r][c] = WHITE

\* A chart with a number that is not drawn right after two draws in a row
\* and after a draw and a miss, and with a coloured cell.
C12_Witness ==
    /\ ChartBuilt
    /\ \E r \in 3..Len(body), c \in NumberCols :
        ~body[r][c] /\ body[r - 1][c] /\ body[r - 2][c]
    /\ \E r \in 3..Len(body), c \in NumberCols :
        ~body[r][c] /\ body[r - 1][c] /\ ~body[r - 2][c]
    /\ \E r \in 1..Len(body), c \in NumberCols : ColorAt(r, c) # WHITE

----------------------------------------------------------------------------
(* The footer: percentages and tallies (C13, C14, C15, C16) *)

\* The column of number n in header, body, colors and footer.
ColOf(n) == TEXT_COLS + 1 + (n - lowest)

\* The number of body rows in which the number of column c is drawn.
RowsDrawn(c) == Cardinality({ r \in 1..Len(body) : body[r][c] })

\* C13: the draw percentage of n is 100 * times_drawn / total body rows
\* printed with four decimals and a '%'; with 4 draws of which exactly one
\* contains n it is "25.0000%".
C13_Percentage ==
    ChartBuilt =>
        \A n \in lowest..highest :
            /\ footer[1][ColOf(n)] = FormatPct(100 * times_drawn(draws, n), Len(body))
            /\ (Len(body) = 4 /\ times_drawn(draws, n) = 1 /\ RowsDrawn(ColOf(n)) = 1)
                => footer[1][ColOf(n)] = "25.0000%"

\* C14: the numerator of the draw percentage of n is the number of draws
\* whose numbers contain n, a draw that lists n twice counting once: it is
\* the count of True cells in n's column of the body and never exceeds the
\* number of body rows, and the percentage printed is the one of that count.
C14_Numerator ==
    ChartBuilt =>
        \A n \in lowest..highest :
            /\ times_drawn(draws, n) = RowsDrawn(ColOf(n))
            /\ times_drawn(draws, n) <= Len(body)
            /\ footer[1][ColOf(n)] = FormatPct(RowsDrawn(ColOf(n)), Len(body))

\* C15: a chart built over a store with zero draws is built without an
\* error, and the draw percentage of every number of the range is the empty
\* string.
C15_EmptyChart ==
    (pc = "DrawChart" /\ chain(results) = <<>>) =>
        /\ err = ""
        /\ Len(footer) >= 1
        /\ \A n \in lowest..highest : footer[1][ColOf(n)] = ""

\* The row of the footer that tallies the colour named name.
TallyRow(name) == CHOOSE k \in 2..Len(footer) : footer[k][TEXT_COLS] = name

\* The number of body rows whose colour in column c is color.
RowsColored(c, color) == Cardinality({ r \in 1..Len(body) : ColorAt(r, c) = color })

\* C16: for each of GOLD, BLUE, PINK and GREEN and each numeric column the
\* tally of the footer is the number of body rows whose colour in the column
\* is that colour (header and footer rows add nothing), and the four tallies
\* of a column sum to at most the number of body rows in which the number is
\* drawn.
C16_Tallies ==
    ChartBuilt =>
        /\ { footer[k][TEXT_COLS] : k \in 2..Len(footer) } = {"Gold", "Blue", "Pink", "Green"}
        /\ Len(footer) = 5
        /\ \A c \in NumberCols :
            /\ footer[TallyRow("Gold")][c] = RowsColored(c, GOLD)
            /\ footer[TallyRow("Blue")][c] = RowsColored(c, BLUE)
            /\ footer[TallyRow("Pink")][c] = RowsColored(c, PINK)
            /\ footer[TallyRow("Green")][c] = RowsColored(c, GREEN)
            /\ footer[2][c] + footer[3][c] + footer[4][c] + footer[5][c] <= RowsDrawn(c)

\* A chart with a column that has a gold, a pink and a white drawn cell, and
\* a column with a green and a blue cell.
C16_Witness ==
    /\ ChartBuilt
    /\ \E c \in NumberCols :
        /\ footer[TallyRow("Gold")][c] = 1
        /\ footer[TallyRow("Pink")][c] = 1
        /\ RowsDrawn(c) = 3
    /\ \E c \in NumberCols :
        /\ footer[TallyRow("Green")][c] >= 1
        /\ footer[TallyRow("Blue")][c] >= 1

----------------------------------------------------------------------------
(* main's loop (C17) *)

\* filter_results returns at least one draw for combination k.
HasDraws(k) == chain(filter_results(results, DAY_COMBINATIONS[k], weeks).value) # <<>>

\* The combinations taken so far for which a chart was to be written.
Charted == { k \in 1..combo : HasDraws(k) }

\* C17: in main's loop a chart is built and written for a combination iff
\* filter_results returns at least one draw for it; no call of the loop
\* raises, a DrawChart is never constructed with zero body rows, and after
\* a combination whose result is empty the loop goes on to the next.
C17_MainLoop ==
    /\ err = ""
    /\ pc = "filter_results" => (Len(out) # 0 <=> HasDraws(combo))
    /\ pc = "DrawChart" => Len(body) >= 1 /\ HasDraws(combo) /\ draws = chain(out)
    /\ pc \in {"main", "return"} =>
        /\ Len(written) = Cardinality(Charted)
        /\ { written[i] : i \in 1..Len(written) }
            = { generate_filename(DAY_COMBINATIONS[k],
                    last_date(filter_results(results, DAY_COMBINATIONS[k], weeks).value)) :
                k \in Charted }
    /\ pc = "filter_results" => (ENABLED MainContinue <=> ~HasDraws(combo))
    /\ pc = "main" /\ combo < Len(DAY_COMBINATIONS) => ENABLED MainFilterResults
    /\ pc = "return" => combo = Len(DAY_COMBINATIONS)

\* main has returned after skipping a combination and writing the charts
\* of two others.
C17_Witness ==
    /\ pc = "return"
    /\ Len(written) >= 2
    /\ \E k \in 1..Len(DAY_COMBINATIONS) : ~HasDraws(k)

----------------------------------------------------------------------------
(* Reader.validate_filenames (C18) *)

\* The name ends with ".csv", whatever the case of its letters.
EndsWithCsv(fn) ==
    /\ Len(fn) >= 4
    /\ fn[Len(fn) - 3] = "."
    /\ fn[Len(fn) - 2] \in {"c", "C"}
    /\ fn[Len(fn) - 1] \in {"s", "S"}
    /\ fn[Len(fn)] \in {"v", "V"}

\* C18: when abort_on_error is off, after validate_filenames returns every
\* name left in self.filenames has at least 5 characters and ends with
\* '.csv' (case-insensitive), and every name that ended with '.csv' is
\* still in the list, for any list of names, lists with several invalid
\* names in a row included.
C18_ValidNamesLeft ==
    (pc = "validated" /\ ~abort) =>
        /\ \A i \in 1..Len(filenames) :
            Len(filenames[i]) >= 5 /\ EndsWithCsv(filenames[i])
        /\ \A j \in 1..Len(given) :
            EndsWithCsv(given[j]) => \E i \in 1..Len(filenames) : filenames[i] = given[j]

----------------------------------------------------------------------------
(* txt_lotto's classifier and the rule table (C19) *)

\* The colours DrawChart gives to the draws of the store.
Canonical == create_color_matrix(create_matrix(results))

\* The colour of lotto.py that has the category of txt_lotto's colour k:
\* the four named colours, and WHITE for a ball drawn without a pattern.
CategoryOf(k) ==
    CASE k = Colors.GREEN -> GREEN
      [] k = Colors.GOLD -> GOLD
      [] k = Colors.BLUE -> BLUE
      [] k = Colors.PINK -> PINK
      [] k = Colors.WHITE -> WHITE

\* C19: fed the draws one by one in order, the classifier of txt_lotto.py
\* gives each ball in each draw the category the rule table of DrawChart
\* gives it for the same column history, the first three draws included: a
\* ball that is not drawn has no colour in both, a drawn ball has the same
\* colour, and a ball drawn in the first and in the second draw is GOLD in
\* the second.
C19_SameCategory ==
    (pc = "LottoChart" /\ chain(results) # <<>>) =>
        /\ Len(chart.rows) = Len(chain(results))
        /\ \A r \in 1..Len(chart.rows) : \A n \in lowest..highest :
            LET k == chart.rows[r].colors[n]
                drawn == InTuple(n, chain(results)[r].numbers)
            IN  /\ k = Colors.NONE <=> ~drawn
                /\ drawn => CategoryOf(k) = Canonical[HEADER_HEIGHT + r][ColOf(n)]
        /\ \A n \in lowest..highest :
            (/\ Len(chart.rows) >= 2
             /\ InTuple(n, chain(results)[1].numbers)
             /\ InTuple(n, chain(results)[2].numbers))
                => chart.rows[2].colors[n] = Colors.GOLD

----------------------------------------------------------------------------
(* Reader.read_by_order (C20) *)

\* The cells of the row from first_num_col on.
NumberCells == SubSeq(cells, first_num_col + 1, Len(cells))

\* The cell holds an integer: one digit or more.
IsInteger(cell) ==
    /\ cell # <<>>
    /\ \A i \in 1..Len(cell) : cell[i] \in {"0", "1", "2", "3", "4", "5", "6", "7", "8", "9"}

\* The cells before the first cell that is neither an integer nor a hyphen.
ReadableCells ==
    LET stops == { i \in 1..Len(NumberCells) :
                    ~IsInteger(NumberCells[i]) /\ NumberCells[i] # <<"-">> }
        stop == IF stops = {} THEN Len(NumberCells) + 1
                ELSE CHOOSE i \in stops : \A j \in stops : i <= j
    IN  SubSeq(NumberCells, 1, stop - 1)

\* The integers among the readable cells in order, at most
\* MAX_DRAWN_NUMBERS of them.
ExpectedNumbers ==
    LET ints == SelectSeq(ReadableCells, IsInteger)
        n == IF Len(ints) < MAX_DRAWN_NUMBERS THEN Len(ints) ELSE MAX_DRAWN_NUMBERS
    IN  [i \in 1..n |-> DecimalValue(ints[i])]

\* C20: read_by_order reads the cells of a row from first_num_col on as
\* drawn numbers, passing over hyphens, until a cell that is neither an
\* integer nor a hyphen is found or MAX_DRAWN_NUMBERS numbers have been
\* read: no error is raised, an empty cell ends the reading like any other
\* such cell, and the Draw's numbers are exactly those integers in order.
C20_NumbersRead ==
    pc = "row" =>
        /\ err = ""
        /\ Len(read) = 1
        /\ read[1].numbers = ExpectedNumbers

=============================================================================
